---------------------------- MODULE Spec2Model ----------------------------
(***************************************************************************)
(* Model of the generic persistent hash trie of package immut              *)
(* (node / Map / Builder).                                                  *)
(*                                                                         *)
(* Go nodes are small value structs {leaf *leaf, children *children}.      *)
(* A leaf struct is never written after its allocation, so a leaf pointer  *)
(* is modelled by the pair it points to.  A children array is written in   *)
(* place (by insert on its fresh copy, by insertMut/deleteMut on the       *)
(* shared one), so children arrays live in a heap and nodes hold their     *)
(* address.                                                                *)
(***************************************************************************)
EXTENDS Integers, Sequences, FiniteSets, TLC

\* ------------------------------------------------------------------ bounds
MaxMaps == 5        \* Map values the program holds (the empty Map included)
MaxStop == 3        \* largest n for a visitor that returns false on call n
MaxBuilderCalls == 4 \* Set and Delete calls on the Builder
MaxAlgebraMaps == 4 \* Map values held when set operations are called
MaxFrom == 1         \* MapFrom calls
MaxJSONMaps == 4    \* Map values held when JSON is written and read
MaxConcMaps == 4    \* Map values published before goroutines start
MaxReaders == 1     \* goroutines that read a published Map
MaxWriters == 1     \* goroutines that derive a Map from a published one
MaxRacers == 2      \* goroutines that call Set or Delete on the one Builder
MaxTries == 4       \* Trie values the program holds (the empty Trie included)
MaxShareMaps == 5   \* Map values held when structural sharing is looked at
MaxDive == 34       \* depth up to which an insert in progress is followed
MaxDiveMaps == 4    \* Map values held when insert is run one call at a time
MaxIndexDepth == 34 \* depths index is called with (32 and more wrap the shift)
MaxSetMaps == 5     \* Map values of a history of Set calls (the empty Map included)

\* ------------------------------------------------------- program constants
bitsPerLevel == 2
width        == 4   \* 1 << bitsPerLevel
maxDepth     == 32  \* 64 / bitsPerLevel
mask         == 3   \* ones >> (64 - bitsPerLevel)

\* the byte-keyed Trie has constants of the same names in its own file
trieBits     == 4
trieWidth    == 16  \* 1 << bits
trieMask     == 15  \* width - 1
trieMaxDepth == 4   \* 16 / bits

\* --------------------------------------------------------- keys and values
K    == {"a", "b", "c"}
QUOTE == "\""       \* the one-character key that JSON has to escape
KQ   == K \cup {QUOTE}
V    == {1, 2}
zero == 0           \* var zero V

Nil    == 0         \* nil *children
NoLeaf == <<>>      \* nil *leaf

VARIABLES
  seed,     \* the per-process maphash seed
  heap,     \* allocated children arrays: address -> [0..3 -> node]
  maps,     \* the Map values produced so far, maps[1] = NewMap()
  prov,     \* for each Map value, the call that produced it
  trav,     \* the visitor of the ForEach call that has just returned
  b,        \* the Builder: its root node and its len
  bcalls,   \* number of Set and Delete calls made on the Builder
  blog,     \* the Set and Delete calls made on the Builder, in order
  res,      \* the result of the set-algebra call that has just returned
  threads,  \* the goroutines started so far, each where its call has got to
  legacy    \* the byte-keyed Trie: its nodes, its slices and the Tries held

vars == <<seed, heap, maps, prov, trav, b, bcalls, blog, res, threads,
         legacy>>

\* ------------------------------------------------------------------- node
emptyNode == [leaf |-> NoLeaf, children |-> Nil]

emptyChildren == [i \in 0..(width - 1) |-> emptyNode]

isEmpty(n) == n.leaf = NoLeaf /\ n.children = Nil

(***************************************************************************)
(* A 64-bit hash is four 16-bit limbs, most significant first.  maphash    *)
(* is seeded per process: each seed gives the keys other hashes.  Under    *)
(* seed 1 the keys part at depth 0; under seed 2 "a" and "b" share the     *)
(* first bit pair and "a" and "c" the first two.                           *)
(***************************************************************************)
Seeds == {1, 2}

\* a seed under which "a" and "b" have the same 64-bit hash
CollidingSeeds == {3}

HashTable(s, k) ==
  IF s = 1
  THEN CASE k = "a" -> <<4660, 0, 7, 1>>
         [] k = "b" -> <<21555, 9, 0, 2>>
         [] k = "c" -> <<40000, 1, 1, 3>>
         [] k = QUOTE -> <<60000, 2, 2, 4>>
  ELSE IF s = 2
  THEN CASE k = "a" -> <<4660, 0, 7, 1>>
         [] k = "b" -> <<12852, 9, 0, 2>>
         [] k = "c" -> <<7000, 1, 1, 3>>
         [] k = QUOTE -> <<21044, 2, 2, 4>>
  ELSE CASE k = "a" -> <<4660, 0, 7, 1>>
         [] k = "b" -> <<4660, 0, 7, 1>>
         [] k = "c" -> <<40000, 1, 1, 3>>
         [] k = QUOTE -> <<60000, 2, 2, 4>>

hash(k) == HashTable(seed, k)

Pow2(n) == 2 ^ n

(***************************************************************************)
(* index: shift := 64 - bitsPerLevel*(depth+1) is a uint, so for           *)
(* depth >= 32 it wraps to a count >= 64 and h >> shift is 0 in Go.        *)
(***************************************************************************)
\* slip: the pairs are counted from the least-significant end
indexFromLow(h, depth) ==
  IF bitsPerLevel * (depth + 1) > 64
  THEN 0
  ELSE LET shift == bitsPerLevel * depth
           limb  == h[4 - (shift \div 16)]
       IN  (limb \div Pow2(shift % 16)) % (mask + 1)

index(h, depth) ==
  IF bitsPerLevel * (depth + 1) > 64
  THEN 0
  ELSE LET shift == 64 - bitsPerLevel * (depth + 1)
           limb  == h[4 - (shift \div 16)]
       IN  (limb \div Pow2(shift % 16)) % (mask + 1)


\* ------------------------------------------------- node.insert (persistent)
newLeaf(k, v) == <<k, v>>

(***************************************************************************)
(* insert returns the new node and the heap after its allocations.  The    *)
(* copy x of n gets a copy of n's children array at a fresh address.       *)
(***************************************************************************)
\* slip: x.children = n.children, the copy aliases the original's array
copyChildrenAliased(H, n) == [heap |-> H, addr |-> n.children]

copyChildren(H, n) ==
  IF n.children # Nil
  THEN [heap |-> Append(H, H[n.children]), addr |-> Len(H) + 1]
  ELSE [heap |-> H, addr |-> Nil]

RECURSIVE insert(_, _, _, _, _, _)

\* slip: the existing leaf is cleared without being pushed down
pushDownDropped(H, c, l, depth) == H

(***************************************************************************)
(* The existing leaf l of the copy moves into child                        *)
(* index(hash(l.key), depth) of the copy's children array c.               *)
(***************************************************************************)
pushDown(H, c, l, depth) ==
  LET existingHash == hash(l[1])
      existingIdx  == index(existingHash, depth)
      r == insert(H, H[c][existingIdx], l[1], l[2], existingHash, depth + 1)
  IN  [r.heap EXCEPT ![c][existingIdx] = r.node]

insert(H, n, k, v, h, depth) ==
  IF isEmpty(n)
  THEN [heap |-> H, node |-> [leaf |-> newLeaf(k, v), children |-> Nil]]
  ELSE
    LET cp == copyChildren(H, n)
        x  == [leaf |-> n.leaf, children |-> cp.addr]
    IN  IF x.leaf = NoLeaf
        THEN [heap |-> cp.heap, node |-> [x EXCEPT !.leaf = newLeaf(k, v)]]
        ELSE IF x.leaf[1] = k
        THEN [heap |-> cp.heap, node |-> [x EXCEPT !.leaf = newLeaf(k, v)]]
        ELSE
          LET H2 == IF x.children = Nil
                    THEN Append(cp.heap, emptyChildren) ELSE cp.heap
              c  == IF x.children = Nil THEN Len(cp.heap) + 1 ELSE x.children
              H3 == pushDown(H2, c, x.leaf, depth)
              idx == index(h, depth)
              r2 == insert(H3, H3[c][idx], k, v, h, depth + 1)
              H4 == [r2.heap EXCEPT ![c][idx] = r2.node]
          IN  [heap |-> H4, node |-> [leaf |-> NoLeaf, children |-> c]]

\* ---------------------------------------------------------------- node.get
RECURSIVE get(_, _, _, _, _)
get(H, n, k, h, depth) ==
  IF isEmpty(n) THEN <<zero, FALSE>>
  ELSE IF n.leaf # NoLeaf /\ n.leaf[1] = k THEN <<n.leaf[2], TRUE>>
  ELSE IF n.children = Nil THEN <<zero, FALSE>>
  ELSE get(H, H[n.children][index(h, depth)], k, h, depth + 1)

\* ------------------------------------------------- node.delete (persistent)
copyOnDelete(H, n, idx, newChild) ==
  [heap |-> Append(H, [H[n.children] EXCEPT ![idx] = newChild]),
   node |-> [leaf |-> n.leaf, children |-> Len(H) + 1],
   found |-> TRUE]

RECURSIVE delete(_, _, _, _, _)
delete(H, n, k, h, depth) ==
  IF isEmpty(n) THEN [heap |-> H, node |-> emptyNode, found |-> FALSE]
  ELSE IF n.leaf # NoLeaf /\ n.leaf[1] = k
  THEN [heap |-> H, node |-> [leaf |-> NoLeaf, children |-> n.children],
        found |-> TRUE]
  ELSE IF n.children = Nil THEN [heap |-> H, node |-> n, found |-> FALSE]
  ELSE
    LET idx == index(h, depth)
        r   == delete(H, H[n.children][idx], k, h, depth + 1)
    IN  IF ~r.found
        THEN [heap |-> H, node |-> n, found |-> FALSE]
        ELSE copyOnDelete(r.heap, n, idx, r.node)

\* -------------------------------------------------------------- node.count
RECURSIVE count(_, _)
RECURSIVE countChildren(_, _, _)
count(H, n) ==
  IF isEmpty(n) THEN 0
  ELSE (IF n.leaf # NoLeaf THEN 1 ELSE 0)
       + (IF n.children # Nil THEN countChildren(H, n.children, 0) ELSE 0)

countChildren(H, c, i) ==
  IF i = width THEN 0
  ELSE count(H, H[c][i]) + countChildren(H, c, i + 1)

\* ------------------------------------------------------------ node.forEach
(***************************************************************************)
(* The visitor fn is a closure: st is its captured state.  It records      *)
(* every call and returns false on call number st.stopAt (never when       *)
(* stopAt = 0); were it called again after that, it would record the call. *)
(***************************************************************************)
newVisitor(stopAt) == [stopAt |-> stopAt, seen |-> <<>>]

fn(st, k, v) ==
  [st |-> [st EXCEPT !.seen = Append(@, <<k, v>>)],
   ok |-> Len(st.seen) + 1 # st.stopAt]

RECURSIVE forEach(_, _, _)
RECURSIVE forEachChildren(_, _, _, _)
RECURSIVE forEachChildrenNoHalt(_, _, _, _)

\* slip: the result of the recursive call is dropped, the loop goes on
forEachChildrenNoHalt(H, c, i, st) ==
  IF i = width THEN [ok |-> TRUE, st |-> st]
  ELSE forEachChildrenNoHalt(H, c, i + 1, forEach(H, H[c][i], st).st)

forEach(H, n, st) ==
  IF isEmpty(n) THEN [ok |-> TRUE, st |-> st]
  ELSE
    LET r0 == IF n.leaf # NoLeaf THEN fn(st, n.leaf[1], n.leaf[2])
              ELSE [st |-> st, ok |-> TRUE]
    IN  IF ~r0.ok THEN [ok |-> FALSE, st |-> r0.st]
        ELSE IF n.children = Nil THEN [ok |-> TRUE, st |-> r0.st]
        ELSE forEachChildren(H, n.children, 0, r0.st)

forEachChildren(H, c, i, st) ==
  IF i = width THEN [ok |-> TRUE, st |-> st]
  ELSE LET r == forEach(H, H[c][i], st)
       IN  IF ~r.ok THEN [ok |-> FALSE, st |-> r.st]
           ELSE forEachChildren(H, c, i + 1, r.st)

\* -------------------------------------------------------------------- Map
NewMap == [root |-> emptyNode, len |-> 0]

Get(H, m, k) == get(H, m.root, k, hash(k), 0)

Has(H, m, k) == Get(H, m, k)[2]

MapLen(m) == m.len

\* slip: the length grows on every Set
newLenAlways(len, exists) == len + 1

newLen(len, exists) == IF ~exists THEN len + 1 ELSE len

Set(H, m, k, v) ==
  LET h      == hash(k)
      exists == get(H, m.root, k, h, 0)[2]
      r      == insert(H, m.root, k, v, h, 0)
  IN  [heap |-> r.heap,
       map  |-> [root |-> r.node, len |-> newLen(m.len, exists)]]

\* slip: the found flag is ignored
DeleteUnchecked(H, m, k) ==
  LET r == delete(H, m.root, k, hash(k), 0)
  IN  [heap |-> r.heap, map |-> [root |-> r.node, len |-> m.len - 1]]

Delete(H, m, k) ==
  LET r == delete(H, m.root, k, hash(k), 0)
  IN  IF ~r.found THEN [heap |-> H, map |-> m]
      ELSE [heap |-> r.heap, map |-> [root |-> r.node, len |-> m.len - 1]]

ForEach(H, m, st) == forEach(H, m.root, st).st

SeqKeys(s) == [i \in DOMAIN s |-> s[i][1]]
SeqVals(s) == [i \in DOMAIN s |-> s[i][2]]

Keys(H, m)   == SeqKeys(ForEach(H, m, newVisitor(0)).seen)
Values(H, m) == SeqVals(ForEach(H, m, newVisitor(0)).seen)

Equal(H, m, other) ==
  IF m.len # other.len THEN FALSE
  ELSE LET seen == ForEach(H, m, newVisitor(0)).seen
           bad(i) == LET g == Get(H, other, seen[i][1])
                     IN  ~g[2] \/ seen[i][2] # g[1]
       IN  \A i \in DOMAIN seen : ~bad(i)


\* ---------------------------------------------------------- set operations
(***************************************************************************)
(* Each set operation runs ForEach with a closure that updates the local   *)
(* `result` and always returns true.  Entries(H, m) is the sequence of     *)
(* calls that closure gets; SetEach and DeleteEach are the closure bodies  *)
(* result = result.Set(k, v) and result = result.Delete(k) applied to the  *)
(* calls in order.  The tests other.Has(k), m.Has(k) and fn(k, v) read     *)
(* only Maps that exist before the call, so they select the entries first. *)
(***************************************************************************)
Entries(H, m) == ForEach(H, m, newVisitor(0)).seen

RECURSIVE SetEach(_, _, _, _)
SetEach(H, result, es, i) ==
  IF i > Len(es) THEN [heap |-> H, map |-> result]
  ELSE LET r == Set(H, result, es[i][1], es[i][2])
       IN  SetEach(r.heap, r.map, es, i + 1)

RECURSIVE DeleteEach(_, _, _, _)
DeleteEach(H, result, es, i) ==
  IF i > Len(es) THEN [heap |-> H, map |-> result]
  ELSE LET r == Delete(H, result, es[i][1])
       IN  DeleteEach(r.heap, r.map, es, i + 1)

Union(H, m, other) == SetEach(H, m, Entries(H, other), 1)

Intersection(H, m, other) ==
  LET inOther(e) == Has(H, other, e[1])
  IN  SetEach(H, NewMap, SelectSeq(Entries(H, m), inOther), 1)

Difference(H, m, other) == DeleteEach(H, m, Entries(H, other), 1)

SymmetricDifference(H, m, other) ==
  LET notInOther(e) == ~Has(H, other, e[1])
      notInM(e)     == ~Has(H, m, e[1])
      r1 == SetEach(H, NewMap, SelectSeq(Entries(H, m), notInOther), 1)
  IN  SetEach(r1.heap, r1.map, SelectSeq(Entries(H, other), notInM), 1)

Merge(H, m, other) == Union(H, m, other)

(***************************************************************************)
(* The predicates a caller passes to Filter: by value, by key, and one     *)
(* that holds of nothing.                                                  *)
(***************************************************************************)
Preds == {"valIs1", "keyNotA", "never"}

pred(p, k, v) ==
  CASE p = "valIs1"  -> v = 1
    [] p = "keyNotA" -> k # "a"
    [] p = "never"   -> FALSE

Filter(H, m, p) ==
  LET holds(e) == pred(p, e[1], e[2])
  IN  SetEach(H, NewMap, SelectSeq(Entries(H, m), holds), 1)

\* ---------------------------------------------------------------- Builder
(***************************************************************************)
(* insertMut and deleteMut take a *node: the Builder's root field, or      *)
(* slot i of the children array at address c.  A store S is the Builder's  *)
(* root together with the heap; a place is <<Nil, 0>> for the root field   *)
(* and <<c, i>> for an array slot.                                         *)
(***************************************************************************)
rootPlace == <<Nil, 0>>

load(S, at) == IF at[1] = Nil THEN S.root ELSE S.heap[at[1]][at[2]]

store(S, at, n) ==
  IF at[1] = Nil THEN [S EXCEPT !.root = n]
  ELSE [S EXCEPT !.heap[at[1]][at[2]] = n]

RECURSIVE insertMut(_, _, _, _, _, _)
insertMut(S, at, k, v, h, depth) ==
  LET n == load(S, at)
  IN  IF isEmpty(n) THEN store(S, at, [n EXCEPT !.leaf = newLeaf(k, v)])
      ELSE IF n.leaf = NoLeaf
      THEN store(S, at, [n EXCEPT !.leaf = newLeaf(k, v)])
      ELSE IF n.leaf[1] = k
      THEN store(S, at, [n EXCEPT !.leaf = newLeaf(k, v)])
      ELSE
        LET S1 == IF n.children = Nil
                  THEN store([S EXCEPT !.heap = Append(@, emptyChildren)],
                             at, [n EXCEPT !.children = Len(S.heap) + 1])
                  ELSE S
            c  == load(S1, at).children
            existingHash == hash(n.leaf[1])
            existingIdx  == index(existingHash, depth)
            S2 == insertMut(S1, <<c, existingIdx>>, n.leaf[1], n.leaf[2],
                            existingHash, depth + 1)
            S3 == store(S2, at, [load(S2, at) EXCEPT !.leaf = NoLeaf])
            idx == index(h, depth)
        IN  insertMut(S3, <<c, idx>>, k, v, h, depth + 1)

RECURSIVE deleteMut(_, _, _, _, _)
deleteMut(S, at, k, h, depth) ==
  LET n == load(S, at)
  IN  IF isEmpty(n) THEN [store |-> S, deleted |-> FALSE]
      ELSE IF n.leaf # NoLeaf /\ n.leaf[1] = k
      THEN [store |-> store(S, at, [n EXCEPT !.leaf = NoLeaf]),
            deleted |-> TRUE]
      ELSE IF n.children = Nil THEN [store |-> S, deleted |-> FALSE]
      ELSE deleteMut(S, <<n.children, index(h, depth)>>, k, h, depth + 1)

NewBuilder == [root |-> emptyNode, len |-> 0]

\* the store after the call, and the Builder's len
BuilderSetOp(H, bd, k, v) ==
  LET h      == hash(k)
      exists == get(H, bd.root, k, h, 0)[2]
      S      == insertMut([root |-> bd.root, heap |-> H], rootPlace, k, v, h, 0)
  IN  [heap |-> S.heap,
       builder |-> [root |-> S.root,
                    len |-> IF ~exists THEN bd.len + 1 ELSE bd.len]]

BuilderDeleteOp(H, bd, k) ==
  LET r == deleteMut([root |-> bd.root, heap |-> H], rootPlace, k, hash(k), 0)
  IN  [heap |-> r.store.heap,
       builder |-> [root |-> r.store.root,
                    len |-> IF r.deleted THEN bd.len - 1 ELSE bd.len]]

BuilderLen(bd) == bd.len

\* a Build that forgets the count
BuildOpNoLen(bd) == [root |-> bd.root, len |-> 0]

BuildOp(bd) == [root |-> bd.root, len |-> bd.len]

(***************************************************************************)
(* A Go map is a function from a finite set of keys; a range over it may   *)
(* take its keys in any order.                                             *)
(***************************************************************************)
StdMaps == UNION {[D -> V] : D \in SUBSET K}

Orders(D) ==
  {o \in [1..Cardinality(D) -> D] :
     \A i1, i2 \in 1..Cardinality(D) : o[i1] = o[i2] => i1 = i2}

RECURSIVE SetMutEach(_, _, _, _, _)
SetMutEach(H, bd, s, order, i) ==
  IF i > Len(order) THEN [heap |-> H, builder |-> bd]
  ELSE LET r == BuilderSetOp(H, bd, order[i], s[order[i]])
       IN  SetMutEach(r.heap, r.builder, s, order, i + 1)

\* MapFrom(s), the range taking the keys of s in the given order
MapFrom(H, s, order) ==
  LET r == SetMutEach(H, NewBuilder, s, order, 1)
  IN  [heap |-> r.heap, map |-> BuildOp(r.builder)]

RECURSIVE PutEach(_, _, _)
PutEach(result, es, i) ==
  IF i > Len(es) THEN result
  ELSE PutEach([k \in DOMAIN result \cup {es[i][1]} |->
                  IF k = es[i][1] THEN es[i][2] ELSE result[k]],
               es, i + 1)

ToMap(H, m) == PutEach([k \in {} |-> zero], Entries(H, m), 1)

\* ------------------------------------------------------------------- JSON
(***************************************************************************)
(* JSON text is the sequence of its lexemes (the decoder skips commas,     *)
(* colons and white space): a delimiter, a string literal with its raw     *)
(* characters between and including the quotes, or a number.  A key of K   *)
(* is a string of one character.                                           *)
(***************************************************************************)
BACKSLASH == "\\"

delim(c)     == [t |-> "delim", c |-> c, text |-> <<>>, n |-> 0]
literal(txt) == [t |-> "string", c |-> "", text |-> txt, n |-> 0]
number(n)    == [t |-> "number", c |-> "", text |-> <<>>, n |-> n]

\* encoding/json writes a string: quote and backslash are escaped
RECURSIVE escape(_, _)
escape(cs, i) ==
  IF i > Len(cs) THEN <<>>
  ELSE (IF cs[i] \in {QUOTE, BACKSLASH} THEN <<BACKSLASH, cs[i]>>
        ELSE <<cs[i]>>) \o escape(cs, i + 1)

quote(cs) == <<QUOTE>> \o escape(cs, 1) \o <<QUOTE>>

\* encoding/json reads a string literal: it starts with a quote, ends at
\* the first quote that is not escaped, and nothing follows
RECURSIVE scan(_, _, _)
scan(txt, i, acc) ==
  IF i > Len(txt) THEN [err |-> TRUE, cs |-> <<>>]
  ELSE IF txt[i] = QUOTE
  THEN [err |-> i # Len(txt), cs |-> IF i = Len(txt) THEN acc ELSE <<>>]
  ELSE IF txt[i] = BACKSLASH
  THEN IF i + 1 <= Len(txt) /\ txt[i + 1] \in {QUOTE, BACKSLASH}
       THEN scan(txt, i + 2, Append(acc, txt[i + 1]))
       ELSE [err |-> TRUE, cs |-> <<>>]
  ELSE scan(txt, i + 1, Append(acc, txt[i]))

unquote(txt) ==
  IF Len(txt) = 0 \/ txt[1] # QUOTE THEN [err |-> TRUE, cs |-> <<>>]
  ELSE scan(txt, 2, <<>>)

\* json.Marshal of a Go map writes the keys in byte order
keyOrder == <<QUOTE, "a", "b", "c">>

RECURSIVE members(_, _)
members(tm, i) ==
  IF i > Len(keyOrder) THEN <<>>
  ELSE (IF keyOrder[i] \in DOMAIN tm
        THEN <<literal(quote(<<keyOrder[i]>>)), number(tm[keyOrder[i]])>>
        ELSE <<>>) \o members(tm, i + 1)

MarshalJSON(H, m) ==
  <<delim("{")>> \o members(ToMap(H, m), 1) \o <<delim("}")>>

\* dec.More(): another element follows in the object being read
More(data, p) ==
  p <= Len(data) /\ ~(data[p].t = "delim" /\ data[p].c \in {"]", "}"})

(***************************************************************************)
(* The loop of UnmarshalJSON from lexeme p on: the heap and the Builder    *)
(* after it, the lexeme it stopped at, and whether it returned an error.   *)
(***************************************************************************)
RECURSIVE readPairs(_, _, _, _)
readPairs(H, bd, data, p) ==
  LET stop(e) == [err |-> e, heap |-> H, builder |-> bd, p |-> p]
  IN  IF ~More(data, p) THEN stop(FALSE)
      ELSE IF data[p].t # "string" THEN stop(TRUE)       \* key is no string
      ELSE LET keyTok == unquote(data[p].text)
           IN  IF keyTok.err THEN stop(TRUE)             \* dec.Token() fails
      ELSE LET key == unquote(<<QUOTE>> \o keyTok.cs \o <<QUOTE>>)
           IN  IF key.err THEN stop(TRUE)                \* cannot unmarshal key
      ELSE IF p + 1 > Len(data) \/ data[p + 1].t # "number"
           THEN stop(TRUE)                               \* cannot decode value
      ELSE LET r == BuilderSetOp(H, bd, key.cs[1], data[p + 1].n)
           IN  readPairs(r.heap, r.builder, data, p + 2)

\* slip: the receiver is assigned before the closing brace is read
closeAssignFirst(m, r, data) ==
  [err |-> ~(r.p <= Len(data) /\ data[r.p] = delim("}")),
   map |-> BuildOp(r.builder)]

\* the closing brace, then *m = b.Build()
close(m, r, data) ==
  IF r.p <= Len(data) /\ data[r.p] = delim("}")
  THEN [err |-> FALSE, map |-> BuildOp(r.builder)]
  ELSE [err |-> TRUE, map |-> m]

\* the error returned (TRUE for non-nil), the receiver and the heap after
UnmarshalJSON(H, m, data) ==
  IF Len(data) = 0 \/ data[1] # delim("{")
  THEN [err |-> TRUE, map |-> m, heap |-> H]
  ELSE LET r == readPairs(H, NewBuilder, data, 2)
       IN  IF r.err THEN [err |-> TRUE, map |-> m, heap |-> r.heap]
           ELSE LET c == close(m, r, data)
                IN  [err |-> c.err, map |-> c.map, heap |-> r.heap]

\* ------------------------------------------------- the byte-keyed Trie
(***************************************************************************)
(* TNodes are reached through pointers and their vals are Go slices, so    *)
(* both live in a store: nodes[a] is the TNode at address a, arrays[r] the *)
(* backing array r, and a slice is the array it points into with its len   *)
(* and cap.  Keys are byte strings with their FNV-1 hashes, a uint32 as    *)
(* two 16-bit limbs: "aa" and "hn" agree on the low 8 bits.                *)
(***************************************************************************)
TrieKeys == {"aa", "hn", "ab"}
nilVal   == 0          \* nil interface{}
NilSlice == [arr |-> 0, len |-> 0, cap |-> 0]

hashKey(key) ==
  CASE key = "aa" -> <<28791, 11579>>
    [] key = "hn" -> <<26999, 8763>>
    [] key = "ab" -> <<28791, 11576>>

bit(h, i) ==
  IF i < 16 THEN (h[2] \div Pow2(i)) % 2
  ELSE IF i < 32 THEN (h[1] \div Pow2(i - 16)) % 2
  ELSE 0

\* (t.hashedKey >> depth) & mask
indexAtDepth(h, depth) ==
  bit(h, depth) + 2 * bit(h, depth + 1) + 4 * bit(h, depth + 2)
    + 8 * bit(h, depth + 3)

newEntry(key, value) ==
  [rawKey |-> key, hashedKey |-> hashKey(key), value |-> value]

sameKey(e, check) == e.rawKey = check.rawKey

\* s[i - 1] of Go
elem(L, s, i) == L.arrays[s.arr][i]

\* append(s, e): in place while the capacity lasts, else into a new array
\* of twice the capacity
append(L, s, e) ==
  IF s.len < s.cap
  THEN [store |-> [L EXCEPT !.arrays[s.arr][s.len + 1] = e],
        slice |-> [s EXCEPT !.len = @ + 1]]
  ELSE LET newcap == IF s.cap = 0 THEN 1 ELSE 2 * s.cap
           arr    == [i \in 1..newcap |->
                        IF i <= s.len THEN elem(L, s, i) ELSE e]
       IN  [store |-> [L EXCEPT !.arrays = Append(@, arr)],
            slice |-> [arr |-> Len(L.arrays) + 1, len |-> s.len + 1,
                       cap |-> newcap]]

RECURSIVE appendAll(_, _, _, _)
appendAll(L, s, es, j) ==
  IF j > Len(es) THEN [store |-> L, slice |-> s]
  ELSE LET r == append(L, s, es[j])
       IN  appendAll(r.store, r.slice, es, j + 1)

\* the first i with vals[i].sameKey(e), 0 when there is none
find(L, vals, e) ==
  LET hit == {i \in 1..vals.len : sameKey(elem(L, vals, i), e)}
  IN  IF hit = {} THEN 0 ELSE CHOOSE i \in hit : \A i2 \in hit : i <= i2

noChildren == [i \in 0..(trieWidth - 1) |-> 0]

\* z := *t; y := &z
copyTNode(L, t) ==
  [store |-> [L EXCEPT !.nodes = Append(@, L.nodes[t])],
   node |-> Len(L.nodes) + 1]

RECURSIVE put(_, _, _)
put(L, t, e) ==
  LET c     == copyTNode(L, t)
      y     == c.node
      n     == L.nodes[t]
      idx == indexAtDepth(e.hashedKey, n.depth)
      x     == n.children[idx]
  IN  IF x = 0
      THEN \* y.children[index] = NewTNode(y, []Entry{e})
        LET vals  == [arr |-> Len(L.arrays) + 1, len |-> 1, cap |-> 1]
            child == [depth |-> n.depth + 1, vals |-> vals,
                      children |-> noChildren]
        IN  [store |->
               [L EXCEPT !.nodes = [Append(c.store.nodes, child)
                                      EXCEPT ![y].children[idx] = y + 1],
                         !.arrays = Append(L.arrays, <<e>>)],
             node |-> y]
      ELSE IF n.depth >= trieMaxDepth
      THEN \* y.vals = append(y.vals, e)
        LET r == append(c.store, n.vals, e)
        IN  [store |-> [r.store EXCEPT !.nodes[y].vals = r.slice], node |-> y]
      ELSE
        LET i == find(c.store, L.nodes[x].vals, e)
        IN  IF i # 0
            THEN \* y.children[index].vals[i] = e
              [store |-> [c.store EXCEPT
                            !.arrays[L.nodes[x].vals.arr][i] = e],
               node |-> y]
            ELSE
              LET r == put(c.store, x, e)
              IN  [store |-> [r.store EXCEPT
                                !.nodes[y].children[idx] = r.node],
                   node |-> y]

RECURSIVE del(_, _, _)
del(L, t, e) ==
  LET c == copyTNode(L, t)
      y == c.node
      n == L.nodes[t]
      i == find(L, n.vals, e)
  IN  IF i # 0
      THEN \* y.vals = append(y.vals[:i], y.vals[i:]...), i counted from 0
        LET front == [n.vals EXCEPT !.len = i - 1]
            back  == [j \in 1..(n.vals.len - i + 1) |->
                        elem(L, n.vals, i - 1 + j)]
            r     == appendAll(c.store, front, back, 1)
            S     == [r.store EXCEPT !.nodes[y].vals = r.slice]
        IN  [store |-> S, node |-> y,
             value |-> elem(S, r.slice, i).value, found |-> TRUE]
      ELSE
        LET idx == indexAtDepth(e.hashedKey, n.depth)
            miss  == [store |-> c.store, node |-> t, value |-> nilVal,
                      found |-> FALSE]
        IN  IF n.children[idx] = 0 THEN miss
            ELSE LET r == del(c.store, n.children[idx], e)
                 IN  IF ~r.found THEN [miss EXCEPT !.store = r.store]
                     ELSE [store |-> [r.store EXCEPT
                                        !.nodes[y].children[idx] = r.node],
                           node |-> y, value |-> r.value, found |-> TRUE]

RECURSIVE walk(_, _, _)
walk(L, y, e) ==
  IF y = 0 THEN <<nilVal, FALSE>>
  ELSE LET n == L.nodes[y]
           i == find(L, n.vals, e)
       IN  IF i # 0 THEN <<elem(L, n.vals, i).value, TRUE>>
           ELSE walk(L, n.children[indexAtDepth(e.hashedKey, n.depth)], e)

TNodeGet(L, t, key) ==
  LET e == newEntry(key, nilVal)
  IN  walk(L, L.nodes[t].children[indexAtDepth(e.hashedKey,
                                                L.nodes[t].depth)], e)

\* the pairs Each hands to f, in order
RECURSIVE each(_, _)
RECURSIVE eachChild(_, _, _)
each(L, t) ==
  LET n == L.nodes[t]
  IN  [i \in 1..n.vals.len |->
         <<elem(L, n.vals, i).rawKey, elem(L, n.vals, i).value>>]
      \o eachChild(L, n, 0)

eachChild(L, n, i) ==
  IF i = trieWidth THEN <<>>
  ELSE (IF n.children[i] # 0 THEN each(L, n.children[i]) ELSE <<>>)
       \o eachChild(L, n, i + 1)

\* NewTrie(): the root is NewTNode(nil, nil)
NewLegacy ==
  [nodes  |-> <<[depth |-> 0, vals |-> NilSlice, children |-> noChildren]>>,
   arrays |-> <<>>,
   tries  |-> <<[root |-> 1, size |-> 0]>>,
   calls  |-> <<[op |-> "NewTrie"]>>]

TriePut(L, T, key, val) ==
  LET r == put(L, T.root, newEntry(key, val))
  IN  [store |-> r.store, trie |-> [root |-> r.node, size |-> T.size + 1]]

TrieGet(L, T, key) == TNodeGet(L, T.root, key)

TrieDel(L, T, key) ==
  LET r == del(L, T.root, newEntry(key, nilVal))
  IN  IF ~r.found THEN [store |-> r.store, trie |-> T, out |-> nilVal]
      ELSE [store |-> r.store,
            trie |-> [root |-> r.node, size |-> T.size - 1],
            out |-> r.value]

TrieSize(T) == T.size

\* Keys(): make panics on a negative size, keys[count] = k panics when Each
\* hands over more keys than size; slots it does not fill stay nil ("")
TrieKeysOf(L, T) ==
  LET es == each(L, T.root)
  IN  IF T.size = 0 THEN [panic |-> FALSE, keys |-> <<>>]
      ELSE IF T.size < 0 \/ Len(es) > T.size
      THEN [panic |-> TRUE, keys |-> <<>>]
      ELSE [panic |-> FALSE,
            keys |-> [i \in 1..T.size |->
                        IF i <= Len(es) THEN es[i][1] ELSE ""]]

\* ---------------------------------------------------------- state machine
(***************************************************************************)
(* What a caller can observe of a Map: Get of every key, Len, and the      *)
(* sequence of entries ForEach visits.                                     *)
(***************************************************************************)
Obs(H, m) ==
  [get  |-> [k \in K |-> Get(H, m, k)],
   len  |-> MapLen(m),
   iter |-> ForEach(H, m, newVisitor(0)).seen]

(***************************************************************************)
(* The record of a call: the receiver maps[src], the arguments, what the   *)
(* receiver looked like when the call was made, what the result looked     *)
(* like when it returned, and how many children arrays the call allocated. *)
(***************************************************************************)
Call(op, src, k, v, pre, post, allocs) ==
  [op |-> op, src |-> src, k |-> k, v |-> v,
   pre |-> pre, post |-> post, allocs |-> allocs]

NoTrav == [src |-> 0, stopAt |-> 0, seen |-> <<>>]

NoRes == [op |-> "none"]

Fresh == res = NoRes

Init ==
  /\ seed \in Seeds
  /\ heap = <<>>
  /\ maps = <<NewMap>>
  /\ prov = <<Call("NewMap", 0, "", zero, <<>>, Obs(<<>>, NewMap), 0)>>
  /\ trav = NoTrav
  /\ b = NewBuilder
  /\ bcalls = 0
  /\ blog = <<>>
  /\ res = NoRes
  /\ threads = <<>>
  /\ legacy = NewLegacy

\* s := maps[i].Set(k, v)
MapSet(i, k, v) ==
  /\ Len(maps) < MaxMaps
  /\ LET r == Set(heap, maps[i], k, v)
     IN  /\ heap' = r.heap
         /\ maps' = Append(maps, r.map)
         /\ prov' = Append(prov, Call("Set", i, k, v, Obs(heap, maps[i]),
                                      Obs(r.heap, r.map),
                                      Len(r.heap) - Len(heap)))
  /\ trav' = NoTrav
  /\ res' = NoRes
  /\ UNCHANGED <<legacy, threads, seed, b, bcalls, blog>>

\* d := maps[i].Delete(k)
MapDelete(i, k) ==
  /\ Len(maps) < MaxMaps
  /\ LET r == Delete(heap, maps[i], k)
     IN  /\ heap' = r.heap
         /\ maps' = Append(maps, r.map)
         /\ prov' = Append(prov, Call("Delete", i, k, zero, Obs(heap, maps[i]),
                                      Obs(r.heap, r.map),
                                      Len(r.heap) - Len(heap)))
  /\ trav' = NoTrav
  /\ res' = NoRes
  /\ UNCHANGED <<legacy, threads, seed, b, bcalls, blog>>

\* maps[i].ForEach(fn) with a visitor that returns false on call n
MapForEach(i, n) ==
  /\ trav' = [src |-> i, stopAt |-> n,
              seen |-> ForEach(heap, maps[i], newVisitor(n)).seen]
  /\ UNCHANGED <<legacy, threads, seed, heap, maps, prov, b, bcalls, blog, res>>

(***************************************************************************)
(* The program keeps every Map it produced and calls Set and Delete on     *)
(* the newest one or on its predecessor, so that two Maps derived from     *)
(* the same ancestor exist side by side.                                   *)
(***************************************************************************)
Recent == {i \in DOMAIN maps : i >= Len(maps) - 1}

Next ==
  \/ \E i \in Recent, k \in K, v \in V : MapSet(i, k, v)
  \/ \E i \in Recent, k \in K : MapDelete(i, k)

Spec == Init /\ [][Next]_vars

(***************************************************************************)
(* Iteration: the program grows one line of Maps and runs ForEach on the   *)
(* newest, with a visitor that never stops (n = 0) or stops on call n.     *)
(***************************************************************************)
NextIter ==
  \/ \E k \in K, v \in V : MapSet(Len(maps), k, v)
  \/ \E k \in K : MapDelete(Len(maps), k)
  \/ \E n \in 0..MaxStop : MapForEach(Len(maps), n)

SpecIter == Init /\ [][NextIter]_vars

\* b.Set(k, v)
BuilderSet(k, v) ==
  /\ bcalls < MaxBuilderCalls
  /\ LET r == BuilderSetOp(heap, b, k, v)
     IN  heap' = r.heap /\ b' = r.builder
  /\ bcalls' = bcalls + 1
  /\ blog' = Append(blog, [op |-> "Set", k |-> k, v |-> v])
  /\ UNCHANGED <<legacy, threads, seed, maps, prov, trav, res>>

\* b.Delete(k)
BuilderDelete(k) ==
  /\ bcalls < MaxBuilderCalls
  /\ LET r == BuilderDeleteOp(heap, b, k)
     IN  heap' = r.heap /\ b' = r.builder
  /\ bcalls' = bcalls + 1
  /\ blog' = Append(blog, [op |-> "Delete", k |-> k, v |-> zero])
  /\ UNCHANGED <<legacy, threads, seed, maps, prov, trav, res>>

\* m := b.Build(); nothing stops the program from using b afterwards
Build ==
  /\ Len(maps) < MaxMaps
  /\ maps' = Append(maps, BuildOp(b))
  /\ prov' = Append(prov, Call("Build", 0, "", zero,
                               [log |-> blog, len |-> BuilderLen(b)],
                               Obs(heap, BuildOp(b)), 0))
  /\ UNCHANGED <<legacy, threads, seed, heap, trav, b, bcalls, blog, res>>

NextBuilder ==
  \/ \E k \in K, v \in V : BuilderSet(k, v)
  \/ \E k \in K : BuilderDelete(k)
  \/ Build

SpecBuilder == Init /\ [][NextBuilder]_vars

(***************************************************************************)
(* The same sequence of calls through a Builder and through the persistent *)
(* Map: each step makes the call on b and on the newest Map; Build then    *)
(* compares what b built with the newest Map, in both directions.          *)
(***************************************************************************)
\* b.Set(k, v); m = m.Set(k, v)
BothSet(k, v) ==
  /\ bcalls < MaxBuilderCalls
  /\ LET i  == Len(maps)
         rb == BuilderSetOp(heap, b, k, v)
         rm == Set(rb.heap, maps[i], k, v)
     IN  /\ heap' = rm.heap
         /\ b' = rb.builder
         /\ maps' = Append(maps, rm.map)
         /\ prov' = Append(prov, Call("Set", i, k, v, Obs(heap, maps[i]),
                                      Obs(rm.heap, rm.map),
                                      Len(rm.heap) - Len(rb.heap)))
  /\ bcalls' = bcalls + 1
  /\ blog' = Append(blog, [op |-> "Set", k |-> k, v |-> v])
  /\ res' = NoRes
  /\ UNCHANGED <<legacy, threads, seed, trav>>

\* b.Delete(k); m = m.Delete(k)
BothDelete(k) ==
  /\ bcalls < MaxBuilderCalls
  /\ LET i  == Len(maps)
         rb == BuilderDeleteOp(heap, b, k)
         rm == Delete(rb.heap, maps[i], k)
     IN  /\ heap' = rm.heap
         /\ b' = rb.builder
         /\ maps' = Append(maps, rm.map)
         /\ prov' = Append(prov, Call("Delete", i, k, zero,
                                      Obs(heap, maps[i]),
                                      Obs(rm.heap, rm.map),
                                      Len(rm.heap) - Len(rb.heap)))
  /\ bcalls' = bcalls + 1
  /\ blog' = Append(blog, [op |-> "Delete", k |-> k, v |-> zero])
  /\ res' = NoRes
  /\ UNCHANGED <<legacy, threads, seed, trav>>

\* m1 := b.Build(); m1.Equal(m), m.Equal(m1)
BuildAndCompare ==
  /\ Fresh
  /\ LET m1 == BuildOp(b)
         m  == maps[Len(maps)]
     IN  res' = [op |-> "Build", log |-> blog, map |-> m1, other |-> Len(maps),
                 builtEqual |-> Equal(heap, m1, m),
                 otherEqual |-> Equal(heap, m, m1),
                 built |-> Obs(heap, m1), persistent |-> Obs(heap, m)]
  /\ UNCHANGED <<legacy, threads, seed, heap, maps, prov, trav, b, bcalls, blog>>

NextEquiv ==
  \/ \E k \in K, v \in V : BothSet(k, v)
  \/ \E k \in K : BothDelete(k)
  \/ BuildAndCompare

SpecEquiv == Init /\ [][NextEquiv]_vars

\* m := MapFrom(s)
CallMapFrom(s, order) ==
  /\ Len(maps) <= MaxFrom
  /\ LET r == MapFrom(heap, s, order)
     IN  /\ heap' = r.heap
         /\ maps' = Append(maps, r.map)
         /\ prov' = Append(prov, Call("MapFrom", 0, "", zero,
                                      [arg |-> s, order |-> order],
                                      Obs(r.heap, r.map),
                                      Len(r.heap) - Len(heap)))
  /\ trav' = NoTrav
  /\ res' = NoRes
  /\ UNCHANGED <<legacy, threads, seed, b, bcalls, blog>>

\* maps[i].ToMap()
CallToMap(i) ==
  /\ res' = [op |-> "ToMap", m |-> i, result |-> ToMap(heap, maps[i])]
  /\ UNCHANGED <<legacy, threads, seed, heap, maps, prov, trav, b, bcalls, blog>>

NextFrom ==
  \/ \E s \in StdMaps : \E order \in Orders(DOMAIN s) : CallMapFrom(s, order)
  \/ \E i \in DOMAIN maps : Fresh /\ CallToMap(i)

SpecFrom == Init /\ [][NextFrom]_vars

(***************************************************************************)
(* JSON texts handed to UnmarshalJSON: objects that are well formed, and   *)
(* malformed ones of each kind the decoder rejects.                        *)
(***************************************************************************)
str(k) == literal(quote(<<k>>))

WellFormed ==
  { <<delim("{"), delim("}")>>,
    <<delim("{"), str("a"), number(1), str("b"), number(2), delim("}")>>,
    <<delim("{"), str("c"), number(1), str("c"), number(2), delim("}")>> }

Malformed ==
  { <<>>,                                                  \* no token at all
    <<delim("[")>>,                                        \* not an object
    <<number(1)>>,
    <<delim("{"), number(1), number(1), delim("}")>>,      \* key no string
    <<delim("{"), delim("["), delim("}")>>,
    <<delim("{"), literal(<<QUOTE, "a">>), number(1), delim("}")>>,
    <<delim("{"), str(QUOTE), number(1), delim("}")>>,     \* key not decoded
    <<delim("{"), str("a"), str("b"), delim("}")>>,        \* value no number
    <<delim("{"), str("a"), number(1), str("b"), delim("}")>>,
    <<delim("{"), str("a"), number(1), str("b")>>,
    <<delim("{")>>,                                        \* no closing brace
    <<delim("{"), str("a"), number(1)>>,
    <<delim("{"), str("a"), number(1), delim("]")>> }

\* data, _ := json.Marshal(maps[i]); var m2 Map; err := json.Unmarshal(data, &m2)
CallJSONRoundTrip(i) ==
  /\ LET data == MarshalJSON(heap, maps[i])
         r    == UnmarshalJSON(heap, NewMap, data)
     IN  res' = [op |-> "JSONRoundTrip", m |-> i, data |-> data,
                 err |-> r.err, map |-> r.map, heap |-> r.heap,
                 equal |-> Equal(r.heap, maps[i], r.map)]
  /\ UNCHANGED <<legacy, threads, seed, heap, maps, prov, trav, b, bcalls, blog>>

\* m := maps[i]; err := m.UnmarshalJSON(data)
CallUnmarshalJSON(i, data) ==
  /\ LET r == UnmarshalJSON(heap, maps[i], data)
     IN  res' = [op |-> "UnmarshalJSON", m |-> i, data |-> data,
                 err |-> r.err, map |-> r.map, heap |-> r.heap,
                 pre |-> Obs(heap, maps[i]), post |-> Obs(r.heap, r.map)]
  /\ UNCHANGED <<legacy, threads, seed, heap, maps, prov, trav, b, bcalls, blog>>

NextJSON ==
  \/ \E k \in KQ, v \in V :
       Len(maps) < MaxJSONMaps /\ MapSet(Len(maps), k, v)
  \/ \E k \in KQ :
       Len(maps) < MaxJSONMaps /\ MapDelete(Len(maps), k)
  \/ Fresh /\ CallJSONRoundTrip(Len(maps))
  \/ \E data \in WellFormed \cup Malformed :
       Fresh /\ CallUnmarshalJSON(Len(maps), data)

SpecJSON == Init /\ [][NextJSON]_vars

\* ------------------------------------------------- goroutines on one Map
(***************************************************************************)
(* A reading goroutine runs Get, Len or ForEach on its copy of the Map     *)
(* value maps[src]; each step reads one node out of a children array.      *)
(* expect is what the call returns when nothing else runs.                 *)
(***************************************************************************)
ReaderOps == {"Get", "Len", "ForEach"}

\* go func() { maps[src].Get(k) }() and the like
SpawnReader(op, src, k) ==
  /\ Cardinality({t \in DOMAIN threads : threads[t].kind = "reader"})
       < MaxReaders
  /\ threads' = Append(threads,
       [kind |-> "reader", op |-> op, src |-> src, k |-> k,
        n |-> maps[src].root, depth |-> 0,
        todo |-> <<rootPlace>>, seen |-> <<>>,
        steps |-> 0, raced |-> FALSE, done |-> FALSE, got |-> <<>>,
        expect |-> CASE op = "Get" -> Get(heap, maps[src], k)
                     [] op = "Len" -> MapLen(maps[src])
                     [] op = "ForEach" -> Entries(heap, maps[src])])
  /\ UNCHANGED <<legacy, seed, heap, maps, prov, trav, b, bcalls, blog, res>>

\* one call of node.get on the node the goroutine holds
getStep(th) ==
  LET n == th.n
      return(r) == [th EXCEPT !.done = TRUE, !.got = r, !.steps = @ + 1]
  IN  IF isEmpty(n) THEN return(<<zero, FALSE>>)
      ELSE IF n.leaf # NoLeaf /\ n.leaf[1] = th.k
      THEN return(<<n.leaf[2], TRUE>>)
      ELSE IF n.children = Nil THEN return(<<zero, FALSE>>)
      ELSE [th EXCEPT !.n = heap[n.children][index(hash(th.k), th.depth)],
                      !.depth = th.depth + 1, !.steps = @ + 1]

\* one call of node.forEach: todo holds the root and the array slots that
\* the calls still open will come to, in their order
forEachStep(th) ==
  LET item == Head(th.todo)
      n    == IF item = rootPlace THEN th.n ELSE heap[item[1]][item[2]]
      below == IF isEmpty(n) \/ n.children = Nil THEN <<>>
               ELSE [i \in 1..width |-> <<n.children, i - 1>>]
      seen == IF ~isEmpty(n) /\ n.leaf # NoLeaf
              THEN Append(th.seen, n.leaf) ELSE th.seen
      todo == below \o Tail(th.todo)
  IN  [th EXCEPT !.todo = todo, !.seen = seen, !.steps = @ + 1,
                 !.done = (todo = <<>>),
                 !.got = IF todo = <<>> THEN seen ELSE <<>>]

ReaderStep(t) ==
  /\ threads[t].kind = "reader"
  /\ ~threads[t].done
  /\ LET th == threads[t]
     IN  threads' = [threads EXCEPT ![t] =
           CASE th.op = "Get" -> getStep(th)
             [] th.op = "Len" -> [th EXCEPT !.done = TRUE, !.steps = 1,
                                            !.got = MapLen(maps[th.src])]
             [] th.op = "ForEach" -> forEachStep(th)]
  /\ UNCHANGED <<legacy, seed, heap, maps, prov, trav, b, bcalls, blog, res>>

(***************************************************************************)
(* A writing goroutine runs Set, Delete or Union on maps[src].  The arrays *)
(* it allocates are its own until it returns; what other goroutines can    *)
(* see of its run is the stores it makes, one array slot at a time.  The   *)
(* stores are those that take the heap it started on to the heap its call  *)
(* ends with, taken in the order of the addresses.                         *)
(***************************************************************************)
slots(H) == [n \in 1..(width * Len(H)) |-> <<(n - 1) \div width + 1,
                                             (n - 1) % width>>]

stores(H, target) ==
  LET differs(s) == H[s[1]][s[2]] # target[s[1]][s[2]]
      pending    == SelectSeq(slots(target), differs)
  IN  [n \in 1..Len(pending) |->
         <<pending[n][1], pending[n][2], target[pending[n][1]][pending[n][2]]>>]

RECURSIVE allocated(_, _)
allocated(H, n) == IF n = 0 THEN H ELSE allocated(Append(H, emptyChildren), n - 1)

\* go func() { maps[src].Set(k, v) }() and the like
SpawnWriter(op, src, k, v, other) ==
  /\ Cardinality({t \in DOMAIN threads : threads[t].kind = "writer"})
       < MaxWriters
  /\ LET r == CASE op = "Set" -> Set(heap, maps[src], k, v)
                [] op = "Delete" -> Delete(heap, maps[src], k)
                [] op = "Union" -> Union(heap, maps[src], maps[other])
         H == allocated(heap, Len(r.heap) - Len(heap))
     IN  /\ heap' = H
         /\ threads' = Append(threads,
              [kind |-> "writer", op |-> op, src |-> src, k |-> k, v |-> v,
               other |-> other, stores |-> stores(H, r.heap), map |-> r.map,
               pre |-> Obs(heap, maps[src]), allocs |-> Len(r.heap) - Len(heap),
               done |-> FALSE])
  /\ UNCHANGED <<legacy, seed, maps, prov, trav, b, bcalls, blog, res>>

\* the next store of the call
WriterStore(t) ==
  /\ threads[t].kind = "writer"
  /\ threads[t].stores # <<>>
  /\ LET st == Head(threads[t].stores)
     IN  heap' = [heap EXCEPT ![st[1]][st[2]] = st[3]]
  /\ threads' = [u \in DOMAIN threads |->
       IF u = t THEN [threads[u] EXCEPT !.stores = Tail(@)]
       ELSE IF threads[u].kind = "reader" /\ threads[u].steps > 0
               /\ ~threads[u].done
       THEN [threads[u] EXCEPT !.raced = TRUE]
       ELSE threads[u]]
  /\ UNCHANGED <<legacy, seed, maps, prov, trav, b, bcalls, blog, res>>

\* the call returns its Map
WriterReturn(t) ==
  /\ threads[t].kind = "writer"
  /\ threads[t].stores = <<>>
  /\ ~threads[t].done
  /\ LET th == threads[t]
     IN  /\ maps' = Append(maps, th.map)
         /\ prov' = Append(prov, Call(th.op, th.src, th.k, th.v, th.pre,
                                      Obs(heap, th.map), th.allocs))
  /\ threads' = [threads EXCEPT ![t].done = TRUE]
  /\ UNCHANGED <<legacy, seed, heap, trav, b, bcalls, blog, res>>

\* Maps are published first; then goroutines run on the newest of them
NextConc ==
  \/ \E k \in K :
       /\ threads = <<>>
       /\ Len(maps) < MaxConcMaps
       /\ MapSet(Len(maps), k, 1)
  \/ \E op \in ReaderOps, k \in K :
       /\ Len(maps) >= MaxConcMaps
       /\ op = "Get" \/ k = "a"
       /\ SpawnReader(op, Len(maps), k)
  \/ \E t \in DOMAIN threads : ReaderStep(t)
  \/ \E op \in {"Set", "Delete"}, k \in K, v \in V :
       /\ Len(maps) >= MaxConcMaps
       /\ op = "Set" \/ v = 1
       /\ SpawnWriter(op, Len(maps), k, IF op = "Set" THEN v ELSE zero, 0)
  \/ \E other \in DOMAIN maps :
       /\ Len(maps) >= MaxConcMaps
       /\ SpawnWriter("Union", Len(maps), "", zero, other)
  \/ \E t \in DOMAIN threads : WriterStore(t)
  \/ \E t \in DOMAIN threads : WriterReturn(t)

SpecConc == Init /\ [][NextConc]_vars

\* --------------------------------------------- goroutines on one Builder
(***************************************************************************)
(* A goroutine runs one Set or one Delete on the Builder b, which has no   *)
(* lock: the existence check, the insert or delete in place and the update *)
(* of the count are steps of their own, and steps of other goroutines may  *)
(* come between them.  overlapped tells that another call was in progress  *)
(* at some time between the start and the return of this one.              *)
(***************************************************************************)
running == {t \in DOMAIN threads :
              threads[t].kind = "racer" /\ threads[t].pc # "done"}

\* go func() { b.Set(k, v) }() or go func() { b.Delete(k) }()
SpawnRacer(op, k, v) ==
  /\ Cardinality({t \in DOMAIN threads : threads[t].kind = "racer"})
       < MaxRacers
  /\ threads' = Append(
       [t \in DOMAIN threads |->
          IF t \in running THEN [threads[t] EXCEPT !.overlapped = TRUE]
          ELSE threads[t]],
       [kind |-> "racer", op |-> op, k |-> k, v |-> v,
        pc |-> IF op = "Set" THEN "get" ELSE "deleteMut",
        exists |-> FALSE, overlapped |-> running # {}])
  /\ blog' = Append(blog, [op |-> op, k |-> k, v |-> v])
  /\ UNCHANGED <<legacy, seed, heap, maps, prov, trav, b, bcalls, res>>

\* _, exists := b.root.get(k, h, 0)
RacerGet(t) ==
  /\ threads[t].kind = "racer" /\ threads[t].pc = "get"
  /\ threads' = [threads EXCEPT
       ![t].exists = get(heap, b.root, threads[t].k, hash(threads[t].k), 0)[2],
       ![t].pc = "insertMut"]
  /\ UNCHANGED <<legacy, seed, heap, maps, prov, trav, b, bcalls, blog, res>>

\* b.root.insertMut(k, v, h, 0)
RacerInsertMut(t) ==
  /\ threads[t].kind = "racer" /\ threads[t].pc = "insertMut"
  /\ LET th == threads[t]
         S  == insertMut([root |-> b.root, heap |-> heap], rootPlace,
                         th.k, th.v, hash(th.k), 0)
     IN  /\ heap' = S.heap
         /\ b' = [b EXCEPT !.root = S.root]
         /\ threads' = [threads EXCEPT
              ![t].pc = IF ~th.exists THEN "count" ELSE "done"]
  /\ UNCHANGED <<legacy, seed, maps, prov, trav, bcalls, blog, res>>

\* deleted := b.root.deleteMut(k, h, 0)
RacerDeleteMut(t) ==
  /\ threads[t].kind = "racer" /\ threads[t].pc = "deleteMut"
  /\ LET th == threads[t]
         r  == deleteMut([root |-> b.root, heap |-> heap], rootPlace,
                         th.k, hash(th.k), 0)
     IN  /\ heap' = r.store.heap
         /\ b' = [b EXCEPT !.root = r.store.root]
         /\ threads' = [threads EXCEPT
              ![t].pc = IF r.deleted THEN "count" ELSE "done"]
  /\ UNCHANGED <<legacy, seed, maps, prov, trav, bcalls, blog, res>>

\* slip: the count is left as it was
countAsBefore(bd, op) == bd

\* b.len++ after a Set of a new key, b.len-- after a Delete that removed
countUpdate(bd, op) ==
  [bd EXCEPT !.len = IF op = "Set" THEN @ + 1 ELSE @ - 1]

RacerCount(t) ==
  /\ threads[t].kind = "racer" /\ threads[t].pc = "count"
  /\ b' = countUpdate(b, threads[t].op)
  /\ threads' = [threads EXCEPT ![t].pc = "done"]
  /\ UNCHANGED <<legacy, seed, heap, maps, prov, trav, bcalls, blog, res>>

NextRace ==
  \/ \E k \in K, v \in V : SpawnRacer("Set", k, v)
  \/ \E k \in K : SpawnRacer("Delete", k, zero)
  \/ \E t \in DOMAIN threads : RacerGet(t)
  \/ \E t \in DOMAIN threads : RacerInsertMut(t)
  \/ \E t \in DOMAIN threads : RacerDeleteMut(t)
  \/ \E t \in DOMAIN threads : RacerCount(t)

SpecRace == Init /\ [][NextRace]_vars

\* ------------------------------------------------ calls on the byte-keyed Trie
\* what a caller can observe of a Trie: Get of every key, Size and Keys
TrieObs(L, T) ==
  [get  |-> [key \in TrieKeys |-> TrieGet(L, T, key)],
   size |-> TrieSize(T),
   keys |-> TrieKeysOf(L, T)]

\* t2 := tries[i].Put(key, val)
CallTriePut(i, key, val) ==
  /\ Len(legacy.tries) < MaxTries
  /\ LET T == legacy.tries[i]
         r == TriePut(legacy, T, key, val)
     IN  legacy' = [r.store EXCEPT
           !.tries = Append(@, r.trie),
           !.calls = Append(@, [op |-> "Put", src |-> i, key |-> key,
                                val |-> val, out |-> nilVal,
                                pre |-> TrieObs(legacy, T),
                                post |-> TrieObs(r.store, r.trie)])]
  /\ UNCHANGED <<seed, heap, maps, prov, trav, b, bcalls, blog, res, threads>>

\* t2, out := tries[i].Del(key)
CallTrieDel(i, key) ==
  /\ Len(legacy.tries) < MaxTries
  /\ LET T == legacy.tries[i]
         r == TrieDel(legacy, T, key)
     IN  legacy' = [r.store EXCEPT
           !.tries = Append(@, r.trie),
           !.calls = Append(@, [op |-> "Del", src |-> i, key |-> key,
                                val |-> nilVal, out |-> r.out,
                                pre |-> TrieObs(legacy, T),
                                post |-> TrieObs(r.store, r.trie)])]
  /\ UNCHANGED <<seed, heap, maps, prov, trav, b, bcalls, blog, res, threads>>

RecentTries == {i \in DOMAIN legacy.tries : i >= Len(legacy.tries) - 1}

NextTrie ==
  \/ \E i \in RecentTries, key \in TrieKeys, val \in V : CallTriePut(i, key, val)
  \/ \E i \in RecentTries, key \in TrieKeys : CallTrieDel(i, key)

SpecTrie == Init /\ [][NextTrie]_vars

\* a linear history of Set and Delete over the four keys
NextShare ==
  \/ \E k \in KQ, v \in V :
       Len(maps) < MaxShareMaps /\ MapSet(Len(maps), k, v)
  \/ \E k \in KQ :
       Len(maps) < MaxShareMaps /\ MapDelete(Len(maps), k)

SpecShare == Init /\ [][NextShare]_vars

(***************************************************************************)
(* Set algebra.  The program grows one line of Maps with Set and Delete    *)
(* and calls a set operation on any two of them.  The result is a local    *)
(* of the caller: res holds it, with the heap as the call left it, until   *)
(* the next call.                                                          *)
(***************************************************************************)
MapResult(op, i, j, r) ==
  [op |-> op, m |-> i, other |-> j, map |-> r.map, heap |-> r.heap]

MapUnion(i, j) ==
  /\ res' = MapResult("Union", i, j, Union(heap, maps[i], maps[j]))
  /\ UNCHANGED <<legacy, threads, seed, heap, maps, prov, trav, b, bcalls, blog>>

MapIntersection(i, j) ==
  /\ res' = MapResult("Intersection", i, j,
                      Intersection(heap, maps[i], maps[j]))
  /\ UNCHANGED <<legacy, threads, seed, heap, maps, prov, trav, b, bcalls, blog>>

MapDifference(i, j) ==
  /\ res' = MapResult("Difference", i, j, Difference(heap, maps[i], maps[j]))
  /\ UNCHANGED <<legacy, threads, seed, heap, maps, prov, trav, b, bcalls, blog>>

MapSymmetricDifference(i, j) ==
  /\ res' = MapResult("SymmetricDifference", i, j,
                      SymmetricDifference(heap, maps[i], maps[j]))
  /\ UNCHANGED <<legacy, threads, seed, heap, maps, prov, trav, b, bcalls, blog>>

MapFilter(i, p) ==
  /\ res' = [op |-> "Filter", m |-> i, pred |-> p,
             map |-> Filter(heap, maps[i], p).map,
             heap |-> Filter(heap, maps[i], p).heap,
             pre |-> Obs(heap, maps[i])]
  /\ UNCHANGED <<legacy, threads, seed, heap, maps, prov, trav, b, bcalls, blog>>

MapEqual(i, j) ==
  /\ res' = [op |-> "Equal", m |-> i, other |-> j,
             ok |-> Equal(heap, maps[i], maps[j])]
  /\ UNCHANGED <<legacy, threads, seed, heap, maps, prov, trav, b, bcalls, blog>>

\* a.SymmetricDifference(b).Equal(a.Union(b))
MapSymDiffEqualUnion(i, j) ==
  /\ LET sd == SymmetricDifference(heap, maps[i], maps[j])
         u  == Union(sd.heap, maps[i], maps[j])
     IN  res' = [op |-> "SymDiffEqualUnion", m |-> i, other |-> j,
                 ok |-> Equal(u.heap, sd.map, u.map)]
  /\ UNCHANGED <<legacy, threads, seed, heap, maps, prov, trav, b, bcalls, blog>>

(***************************************************************************)
(* A set operation reads heap and maps and writes res only, so one called  *)
(* right after another reaches the states the first call reaches from the  *)
(* same Maps: Fresh keeps the search from generating them again.           *)
(***************************************************************************)

NextAlgebra ==
  \/ \E k \in K, v \in V :
       Len(maps) < MaxAlgebraMaps /\ MapSet(Len(maps), k, v)
  \/ \E k \in K :
       Len(maps) < MaxAlgebraMaps /\ MapDelete(Len(maps), k)
  \/ \E i, j \in DOMAIN maps : Fresh /\ MapUnion(i, j)
  \/ \E i, j \in DOMAIN maps : Fresh /\ MapIntersection(i, j)
  \/ \E i, j \in DOMAIN maps : Fresh /\ MapDifference(i, j)
  \/ \E i, j \in DOMAIN maps : Fresh /\ MapSymmetricDifference(i, j)
  \/ \E i \in DOMAIN maps, p \in Preds : Fresh /\ MapFilter(i, p)
  \/ \E i, j \in DOMAIN maps : Fresh /\ MapEqual(i, j)
  \/ \E i, j \in DOMAIN maps : Fresh /\ MapSymDiffEqualUnion(i, j)

SpecAlgebra == Init /\ [][NextAlgebra]_vars


\* ------------------------------------------------------------- properties
Calls(op) == {j \in DOMAIN maps : prov[j].op = op}

Receiver(j) == maps[prov[j].src]

DistinctKeys(seen) == {seen[i][1] : i \in DOMAIN seen}

(***************************************************************************)
(* C1  Map immutability.  The receiver of every Set and of every Delete    *)
(* shows, in every later state, exactly what it showed before the call:    *)
(* Get of every key, Len and the sequence of entries ForEach visits.       *)
(***************************************************************************)
C1_Immutability ==
  \A j \in Calls("Set") \cup Calls("Delete") :
    Obs(heap, Receiver(j)) = prov[j].pre

\* a Set and a Delete each copied the children array of their receiver,
\* and the Delete removed a key stored below the root
C1_Witness ==
  /\ \E j \in Calls("Set") :
       /\ Receiver(j).root.children # Nil
       /\ prov[j].allocs > 0
  /\ \E j \in Calls("Delete") :
       /\ prov[j].allocs > 0
       /\ prov[j].pre.get[prov[j].k][2]

(***************************************************************************)
(* C3  Len invariant.  Len() of every Map is the number of distinct keys   *)
(* ForEach visits.                                                         *)
(***************************************************************************)
C3_LenIsDistinctKeys ==
  \A j \in DOMAIN maps :
    MapLen(maps[j]) = Cardinality(DistinctKeys(Obs(heap, maps[j]).iter))

(***************************************************************************)
(* C4  Delete of a present key.  If m.Has(k), d = m.Delete(k) has          *)
(* d.Get(k) = (zero, false), d.Len() = m.Len() - 1 and d.Get(j) = m.Get(j) *)
(* for every other key j.                                                  *)
(***************************************************************************)
C4_DeletePresent ==
  \A j \in Calls("Delete") :
    prov[j].pre.get[prov[j].k][2] =>
      /\ Get(heap, maps[j], prov[j].k) = <<zero, FALSE>>
      /\ MapLen(maps[j]) = prov[j].pre.len - 1
      /\ \A o \in K \ {prov[j].k} : Get(heap, maps[j], o) = prov[j].pre.get[o]

(***************************************************************************)
(* C5  Set/Get round trip.  s = m.Set(k, v) has s.Get(k) = (v, true) and   *)
(* s.Get(j) = m.Get(j) for every other key j, when Set returns and after   *)
(* any later Set and Delete on other Maps derived from the same ancestor.  *)
(***************************************************************************)
C5_SetGetRoundTrip ==
  \A j \in Calls("Set") :
    /\ Get(heap, maps[j], prov[j].k) = <<prov[j].v, TRUE>>
    /\ \A o \in K \ {prov[j].k} : Get(heap, maps[j], o) = prov[j].pre.get[o]

\* a Set that pushed the receiver's leaf down, followed by a Set and a
\* Delete on Maps that share structure with its result
C5_Witness ==
  \E j \in Calls("Set") :
    /\ Receiver(j).root.leaf # NoLeaf
    /\ Receiver(j).root.leaf[1] # prov[j].k
    /\ \E o \in K \ {prov[j].k} : prov[j].pre.get[o][2]
    /\ \E a \in Calls("Set"), d \in Calls("Delete") :
         /\ a > j /\ d > j
         /\ prov[d].allocs > 0
         /\ prov[a].src = prov[d].src

(***************************************************************************)
(* C6  Overwrite.  m.Set(k, v1).Set(k, v2).Get(k) = (v2, true), and the    *)
(* second Set leaves Len() as the first Set left it.                       *)
(***************************************************************************)
C6_Overwrite ==
  \A j \in Calls("Set") :
    LET i == prov[j].src
    IN  (prov[i].op = "Set" /\ prov[i].k = prov[j].k) =>
          /\ Get(heap, maps[j], prov[j].k) = <<prov[j].v, TRUE>>
          /\ MapLen(maps[j]) = MapLen(maps[i])

\* the overwrite happens in a Map of two or more keys, with another value
C6_Witness ==
  \E j \in Calls("Set") :
    LET i == prov[j].src
    IN  /\ prov[i].op = "Set" /\ prov[i].k = prov[j].k
        /\ prov[i].v # prov[j].v
        /\ MapLen(maps[i]) >= 2

(***************************************************************************)
(* C7  Delete of an absent key.  If not m.Has(k), m.Delete(k) is m itself: *)
(* the same root and length, no children array allocated, Len() and Get    *)
(* of every key as before.                                                 *)
(***************************************************************************)
C7_DeleteAbsent ==
  \A j \in Calls("Delete") :
    ~prov[j].pre.get[prov[j].k][2] =>
      /\ maps[j] = Receiver(j)
      /\ prov[j].allocs = 0
      /\ prov[j].post = prov[j].pre

\* the absent key is searched for below the root of a Map with children
C7_Witness ==
  \E j \in Calls("Delete") :
    /\ ~prov[j].pre.get[prov[j].k][2]
    /\ Receiver(j).root.children # Nil
    /\ prov[j].pre.len >= 2

(***************************************************************************)
(* C8  Delete idempotence.  For d = m.Delete(k), d.Delete(k) is equal to   *)
(* d: same Len, same keys and values, Equal true in both directions.       *)
(***************************************************************************)
C8_DeleteIdempotent ==
  \A j \in Calls("Delete") :
    LET r == Delete(heap, maps[j], prov[j].k)
    IN  /\ MapLen(r.map) = MapLen(maps[j])
        /\ Obs(r.heap, r.map).get = Obs(heap, maps[j]).get
        /\ Equal(r.heap, r.map, maps[j])
        /\ Equal(r.heap, maps[j], r.map)

(***************************************************************************)
(* C2  Builder is consumed by Build.  No Set or Delete on the Builder      *)
(* after Build() returned m changes m: m shows in every later state what   *)
(* it showed when Build returned (the Builder rejects no call).            *)
(***************************************************************************)
C2_BuiltMapNeverChanges ==
  \A j \in Calls("Build") : Obs(heap, maps[j]) = prov[j].post

(***************************************************************************)
(* C9  Iteration covers each entry exactly once.  A ForEach whose visitor  *)
(* always returns true visits every key k with m.Has(k) exactly once,      *)
(* with the value m.Get(k), and nothing else; Keys() and Values() have     *)
(* Len() elements each and Keys() has no duplicate.                        *)
(***************************************************************************)
Visits(seen, k) == {i \in DOMAIN seen : seen[i][1] = k}

C9_ForEachExactlyOnce ==
  (trav.src # 0 /\ trav.stopAt = 0) =>
    LET m == maps[trav.src]
    IN  /\ \A k \in K :
             IF Has(heap, m, k)
             THEN /\ Cardinality(Visits(trav.seen, k)) = 1
                  /\ \A i \in Visits(trav.seen, k) :
                       trav.seen[i][2] = Get(heap, m, k)[1]
             ELSE Visits(trav.seen, k) = {}
        /\ Len(Keys(heap, m)) = MapLen(m)
        /\ Len(Values(heap, m)) = MapLen(m)
        /\ Cardinality(DistinctKeys(trav.seen)) = Len(Keys(heap, m))

(***************************************************************************)
(* C10  ForEach early stop.  A visitor that returns false on its n-th      *)
(* call is never called again in that traversal: it is called at most n    *)
(* times, exactly n times when the traversal has n entries or more, and    *)
(* the calls it got are the first calls of the full traversal.             *)
(***************************************************************************)
C10_ForEachEarlyStop ==
  (trav.src # 0 /\ trav.stopAt > 0) =>
    LET full == ForEach(heap, maps[trav.src], newVisitor(0)).seen
    IN  /\ Len(trav.seen) <= trav.stopAt
        /\ trav.stopAt <= Len(full) => Len(trav.seen) = trav.stopAt
        /\ trav.seen = SubSeq(full, 1, Len(trav.seen))

\* the visitor said false below the root, inside a child that has children
\* of its own, with entries still to come
C10_Witness ==
  /\ trav.src # 0
  /\ trav.stopAt > 0
  /\ LET m    == maps[trav.src]
         full == ForEach(heap, m, newVisitor(0)).seen
     IN  /\ Len(full) > trav.stopAt
         /\ Len(trav.seen) = trav.stopAt
         /\ m.root.leaf = NoLeaf
         /\ m.root.children # Nil
         /\ \E i \in 0..(width - 1) :
              /\ heap[m.root.children][i].children # Nil
              /\ Len(forEach(heap, heap[m.root.children][i],
                             newVisitor(0)).st.seen) > trav.stopAt

\* ------------------------------------------------------------ set algebra
\* the set operation that has just returned, and its operands
Returned(op) == res.op = op

ResM == maps[res.m]

ResOther == maps[res.other]

\* the keys of K that m has
KeysOf(H, m) == {k \in K : Has(H, m, k)}

(***************************************************************************)
(* C11  Union.  u = m.Union(other) has a key iff m or other has it,        *)
(* u.Get(k) = other.Get(k) when other has k and m.Get(k) otherwise, and    *)
(* u.Len() is the number of keys of the union.                             *)
(***************************************************************************)
C11_Union ==
  Returned("Union") =>
    /\ \A k \in K :
         Get(res.heap, res.map, k) =
           IF Has(heap, ResOther, k) THEN Get(heap, ResOther, k)
           ELSE Get(heap, ResM, k)
    /\ MapLen(res.map) =
         Cardinality(KeysOf(heap, ResM) \cup KeysOf(heap, ResOther))

(***************************************************************************)
(* C12  Intersection.  r = m.Intersection(other) has a key iff m and       *)
(* other both have it, r.Get(k) = m.Get(k) for each such key, and r.Len()  *)
(* is the number of common keys.                                           *)
(***************************************************************************)
C12_Intersection ==
  Returned("Intersection") =>
    /\ \A k \in K :
         Get(res.heap, res.map, k) =
           IF Has(heap, ResM, k) /\ Has(heap, ResOther, k)
           THEN Get(heap, ResM, k) ELSE <<zero, FALSE>>
    /\ MapLen(res.map) =
         Cardinality(KeysOf(heap, ResM) \cap KeysOf(heap, ResOther))

(***************************************************************************)
(* C13  Difference.  r = m.Difference(other) has a key iff m has it and    *)
(* other has not, r.Get(k) = m.Get(k) for each such key, and r.Len() is    *)
(* the number of such keys.                                                *)
(***************************************************************************)
C13_Difference ==
  Returned("Difference") =>
    /\ \A k \in K :
         Get(res.heap, res.map, k) =
           IF Has(heap, ResM, k) /\ ~Has(heap, ResOther, k)
           THEN Get(heap, ResM, k) ELSE <<zero, FALSE>>
    /\ MapLen(res.map) =
         Cardinality(KeysOf(heap, ResM) \ KeysOf(heap, ResOther))

(***************************************************************************)
(* C14  SymmetricDifference.  r = m.SymmetricDifference(other) has a key   *)
(* iff exactly one of m and other has it, r.Get(k) is Get(k) of the side   *)
(* that has it, and r.Len() is the number of such keys.                    *)
(***************************************************************************)
C14_SymmetricDifference ==
  Returned("SymmetricDifference") =>
    /\ \A k \in K :
         Get(res.heap, res.map, k) =
           IF Has(heap, ResM, k) /\ ~Has(heap, ResOther, k)
           THEN Get(heap, ResM, k)
           ELSE IF ~Has(heap, ResM, k) /\ Has(heap, ResOther, k)
           THEN Get(heap, ResOther, k)
           ELSE <<zero, FALSE>>
    /\ MapLen(res.map) =
         Cardinality((KeysOf(heap, ResM) \ KeysOf(heap, ResOther))
                     \cup (KeysOf(heap, ResOther) \ KeysOf(heap, ResM)))

(***************************************************************************)
(* C15  Filter.  r = m.Filter(p) has a key iff m has it and                *)
(* p(k, m.Get(k)) holds, r.Get(k) = m.Get(k) for each such key, r.Len()    *)
(* is the number of such keys, and m is as it was before the call.         *)
(***************************************************************************)
Passing(H, m, p) == {k \in KeysOf(H, m) : pred(p, k, Get(H, m, k)[1])}

C15_Filter ==
  Returned("Filter") =>
    /\ \A k \in K :
         Get(res.heap, res.map, k) =
           IF k \in Passing(heap, ResM, res.pred)
           THEN Get(heap, ResM, k) ELSE <<zero, FALSE>>
    /\ MapLen(res.map) = Cardinality(Passing(heap, ResM, res.pred))
    /\ Obs(res.heap, ResM) = res.pre

(***************************************************************************)
(* C16  Equal.  a.Equal(b) is true exactly when a and b have the same      *)
(* keys and a.Get(k) = b.Get(k) for each of them; it is false when the     *)
(* lengths differ, a.Equal(a) is true and a.Equal(b) = b.Equal(a).         *)
(***************************************************************************)
SameContent(H, a, c) ==
  /\ KeysOf(H, a) = KeysOf(H, c)
  /\ \A k \in KeysOf(H, a) : Get(H, a, k) = Get(H, c, k)

C16_Equal ==
  Returned("Equal") =>
    /\ res.ok = SameContent(heap, ResM, ResOther)
    /\ MapLen(ResM) # MapLen(ResOther) => ~res.ok
    /\ res.m = res.other => res.ok
    /\ res.ok = Equal(heap, ResOther, ResM)

(***************************************************************************)
(* C17  Set-algebra law.  For Maps a and b with no key in common,          *)
(* a.SymmetricDifference(b).Equal(a.Union(b)) is true.                     *)
(***************************************************************************)
C17_SymDiffEqualUnion ==
  (/\ Returned("SymDiffEqualUnion")
   /\ KeysOf(heap, ResM) \cap KeysOf(heap, ResOther) = {}) => res.ok


(***************************************************************************)
(* C18  Builder equivalence.  After the same sequence of Set and Delete    *)
(* calls on a fresh Builder and, one call after the other, on the Map that *)
(* started empty, the Map Build() returns is Equal to the persistent Map   *)
(* and the persistent Map is Equal to it.                                  *)
(***************************************************************************)
C18_BuilderEquivalence ==
  Returned("Build") => res.builtEqual /\ res.otherEqual

(***************************************************************************)
(* C19  Builder content.  The Map Build() returns has Get(k) = (v, true)   *)
(* for every key whose last call on the Builder was Set(k, v), has no key  *)
(* whose last call was Delete or that was never Set, and its Len is the    *)
(* Builder's Len and the number of keys whose last call was a Set.         *)
(***************************************************************************)
LastOp(log, k) ==
  LET I == {i \in DOMAIN log : log[i].k = k}
  IN  IF I = {} THEN [op |-> "none", k |-> k, v |-> zero]
      ELSE log[CHOOSE i \in I : \A i2 \in I : i2 <= i]

C19_BuilderContent ==
  \A j \in Calls("Build") :
    LET log  == prov[j].pre.log
        m    == prov[j].post
        live == {k \in K : LastOp(log, k).op = "Set"}
    IN  /\ \A k \in K :
             IF k \in live THEN m.get[k] = <<LastOp(log, k).v, TRUE>>
             ELSE ~m.get[k][2]
        /\ m.len = prov[j].pre.len
        /\ m.len = Cardinality(live)

\* what holds instead: Get of every key, Len and the entries ForEach
\* visits are the same for the built Map and the persistent one
BuildObservesSame == Returned("Build") => res.built = res.persistent

(***************************************************************************)
(* C20  MapFrom/ToMap round trip.  For every Go map s and every order in   *)
(* which the range takes its keys, m = MapFrom(s) has Len() = |s|, has     *)
(* Get(k) = (s[k], true) for the keys of s and (zero, false) for every     *)
(* other key, and m.ToMap() is s.                                          *)
(***************************************************************************)
C20_MapFromToMap ==
  /\ \A j \in Calls("MapFrom") :
       LET s == prov[j].pre.arg
       IN  /\ MapLen(maps[j]) = Cardinality(DOMAIN s)
           /\ \A k \in K :
                Get(heap, maps[j], k) =
                  IF k \in DOMAIN s THEN <<s[k], TRUE>> ELSE <<zero, FALSE>>
  /\ (Returned("ToMap") /\ prov[res.m].op = "MapFrom")
       => res.result = prov[res.m].pre.arg

\* a Go map of three keys with different values was loaded, the load pushed
\* a leaf down, and ToMap of the result has returned
C20_Witness ==
  \E j \in Calls("MapFrom") :
    LET s == prov[j].pre.arg
    IN  /\ DOMAIN s = K
        /\ s["a"] # s["b"]
        /\ prov[j].allocs >= 2
        /\ Returned("ToMap")
        /\ res.m = j

(***************************************************************************)
(* C21  JSON round trip.  For every Map m reached by Set and Delete calls, *)
(* reading back what MarshalJSON wrote returns no error and gives a Map    *)
(* m2 with m2.Len() = m.Len() and m.Equal(m2).                             *)
(***************************************************************************)
C21_JSONRoundTrip ==
  Returned("JSONRoundTrip") =>
    /\ ~res.err
    /\ MapLen(res.map) = MapLen(maps[res.m])
    /\ res.equal

(***************************************************************************)
(* C22  UnmarshalJSON error handling.  On malformed input UnmarshalJSON    *)
(* returns an error and the receiver is the Map it was before the call.    *)
(***************************************************************************)
C22_UnmarshalError ==
  (Returned("UnmarshalJSON") /\ res.data \in Malformed) =>
    /\ res.err
    /\ res.map = maps[res.m]
    /\ res.post = res.pre

\* a receiver of two keys was handed an object that breaks off after its
\* first member: the Builder had taken that member when the error came
C22_Witness ==
  /\ Returned("UnmarshalJSON")
  /\ MapLen(maps[res.m]) >= 2
  /\ res.data = <<delim("{"), str("a"), number(1)>>
  /\ res.err

(***************************************************************************)
(* C23  Concurrent reads of a published Map.  Whatever the interleaving of *)
(* the steps of the goroutines, every Get, Len and ForEach on a published  *)
(* Map returns what it returns when nothing else runs, and every published *)
(* Map shows what it showed when it was published: no Set, Delete or Union *)
(* stores into an array a published Map reaches.                           *)
(***************************************************************************)
C23_ConcurrentReads ==
  /\ \A t \in DOMAIN threads :
       (threads[t].kind = "reader" /\ threads[t].done)
         => threads[t].got = threads[t].expect
  /\ \A j \in DOMAIN maps : Obs(heap, maps[j]) = prov[j].post

\* a ForEach was part-way through the Map when a writer on the same Map
\* stored into the heap, and it has returned before the writer did
C23_Witness ==
  \E t, u \in DOMAIN threads :
    /\ threads[t].kind = "reader" /\ threads[t].op = "ForEach"
    /\ threads[t].done /\ threads[t].raced
    /\ Len(threads[t].got) >= 3
    /\ threads[u].kind = "writer" /\ ~threads[u].done
    /\ threads[u].src = threads[t].src

(***************************************************************************)
(* C24  Builder is not safe for concurrent use.  A state is reachable in   *)
(* which the calls of two goroutines on one Builder have returned and      *)
(* Len() is not the number of keys the Builder holds (C24_Witness).  What  *)
(* holds in every state: when no call overlapped another, the Builder and  *)
(* the heap are what the same calls give one after the other, in the       *)
(* order they were started.                                                *)
(***************************************************************************)
RECURSIVE replay(_, _, _, _)
replay(H, bd, log, i) ==
  IF i > Len(log) THEN [heap |-> H, builder |-> bd]
  ELSE LET r == IF log[i].op = "Set"
                THEN BuilderSetOp(H, bd, log[i].k, log[i].v)
                ELSE BuilderDeleteOp(H, bd, log[i].k)
       IN  replay(r.heap, r.builder, log, i + 1)

TrieCalls(op) == {j \in DOMAIN legacy.calls : legacy.calls[j].op = op}

C25_TriePutPersistent ==
  \A j \in TrieCalls("Put") :
    LET call == legacy.calls[j]
    IN  TrieObs(legacy, legacy.tries[call.src]).get = call.pre.get

(***************************************************************************)
(* C26  Byte-keyed Trie, Del.  When t holds key with value v, t.Del(key)   *)
(* returns v and a Trie t2 with t2.Get(key) = (nil, false), without key in *)
(* t2.Keys() and with t2.Size() = t.Size() - 1, and t.Get(key) is still    *)
(* (v, true).                                                              *)
(***************************************************************************)
C26_TrieDel ==
  \A j \in TrieCalls("Del") :
    LET call == legacy.calls[j]
        t    == legacy.tries[call.src]
    IN  call.pre.get[call.key][2] =>
          /\ call.out = call.pre.get[call.key][1]
          /\ call.post.get[call.key] = <<nilVal, FALSE>>
          /\ ~call.post.keys.panic
          /\ \A n \in DOMAIN call.post.keys.keys :
               call.post.keys.keys[n] # call.key
          /\ call.post.size = call.pre.size - 1
          /\ TrieGet(legacy, t, call.key) = call.pre.get[call.key]

(***************************************************************************)
(* C27  Path copying with structural sharing.  A position is the sequence  *)
(* of slots that leads from the root to a node.  Two nodes are the same    *)
(* when they hold the same leaf and the same children array;  Differing is *)
(* the set of positions at which the old and the new Map hold nodes that   *)
(* are not the same.                                                       *)
(*                                                                         *)
(* As claimed: a Set or a Delete of k makes the Maps differ only at        *)
(* positions on the path of k (new arrays lie on that path, and every      *)
(* other slot of a copied array is the same subtree in both Maps).         *)
(***************************************************************************)
slot(H, n, i) == IF n.children = Nil THEN emptyNode ELSE H[n.children][i]

RECURSIVE Differing(_, _, _, _, _)
Differing(H, n, H2, x, p) ==
  IF n = x THEN {}
  ELSE {p} \cup UNION {Differing(H, slot(H, n, i), H2, slot(H2, x, i),
                                 Append(p, i)) : i \in 0..(width - 1)}

OnPath(p, k) == \A d \in DOMAIN p : p[d] = index(hash(k), d - 1)

\* the keys of the leaves on the path of k, from node n at depth on
RECURSIVE LeavesOnPath(_, _, _, _)
LeavesOnPath(H, n, k, depth) ==
  (IF n.leaf # NoLeaf THEN {n.leaf[1]} ELSE {})
    \cup (IF n.children = Nil THEN {}
          ELSE LeavesOnPath(H, H[n.children][index(hash(k), depth)], k,
                            depth + 1))

\* k, the keys insert finds in leaves on the way of k and pushes down, and
\* the keys those push down in turn
RECURSIVE Displaced(_, _, _)
Displaced(H, n, T) ==
  LET T2 == T \cup UNION {LeavesOnPath(H, n, t, 0) : t \in T}
  IN  IF T2 = T THEN T ELSE Displaced(H, n, T2)

Unwritten == \A a \in DOMAIN heap : heap'[a] = heap[a]

LastCall == prov'[Len(maps')]

StepDiffering ==
  Differing(heap, maps[LastCall.src].root, heap', maps'[Len(maps')].root, <<>>)

IsCall == Len(maps') = Len(maps) + 1 /\ LastCall.op \in {"Set", "Delete"}

C27_PathCopyOnly ==
  [][IsCall => /\ \A p \in StepDiffering : OnPath(p, LastCall.k)
               /\ Unwritten]_vars

(***************************************************************************)
(* C27, amended.  A Delete of k makes the Maps differ only on the path of  *)
(* k.  A Set of k makes them differ only on the path of k and on the paths *)
(* of the keys it pushes down: the leaves it meets on the way of k are     *)
(* moved one level down, each into the slot of its own hash, which need    *)
(* not be the slot of k.  Every other slot is the same subtree in both     *)
(* Maps, and no array of the heap before the call is written.              *)
(***************************************************************************)
C27_SharingOffMovedPaths ==
  [][IsCall =>
       /\ \A p \in StepDiffering :
            \E t \in IF LastCall.op = "Delete" THEN {LastCall.k}
                     ELSE Displaced(heap, maps[LastCall.src].root,
                                    {LastCall.k}) :
              OnPath(p, t)
       /\ Unwritten]_vars

\* a Set met the leaf of another key in a root that has children, copied
\* the array and pushed the leaf down into a slot that is not the slot of
\* the key set
C27_Witness ==
  \E j \in Calls("Set") :
    /\ Receiver(j).root.leaf # NoLeaf
    /\ Receiver(j).root.leaf[1] # prov[j].k
    /\ Receiver(j).root.children # Nil
    /\ index(hash(Receiver(j).root.leaf[1]), 0) # index(hash(prov[j].k), 0)
    /\ prov[j].allocs >= 1

(***************************************************************************)
(* node.insert, one activation at a time.  A Set in progress is held in    *)
(* res: the control is either a call of insert about to run or a node      *)
(* being returned, and the stack holds the activations that wait for a     *)
(* callee.  An activation waits twice: for the insert that pushes the      *)
(* existing leaf down (part_007:214), then for the insert of the new key   *)
(* (part_007:219).  The heap of the activation is the one heap: the array  *)
(* c of a waiting activation is written when its callee returns.           *)
(***************************************************************************)
CallInsert(n, k, v, h, depth) ==
  [mode |-> "call", n |-> n, k |-> k, v |-> v, h |-> h, depth |-> depth]

Return(n) == [mode |-> "ret", node |-> n]

Frame(pc, c, at, k, v, h, depth) ==
  [pc |-> pc, c |-> c, slot |-> at, k |-> k, v |-> v, h |-> h,
   depth |-> depth]

\* the body of insert up to its first recursive call or its return
enter(H, stack, ctl) ==
  IF isEmpty(ctl.n)
  THEN [heap |-> H, stack |-> stack,
        ctl |-> Return([leaf |-> newLeaf(ctl.k, ctl.v), children |-> Nil])]
  ELSE
    LET cp == copyChildren(H, ctl.n)
        x  == [leaf |-> ctl.n.leaf, children |-> cp.addr]
    IN  IF x.leaf = NoLeaf \/ x.leaf[1] = ctl.k
        THEN [heap |-> cp.heap, stack |-> stack,
              ctl |-> Return([x EXCEPT !.leaf = newLeaf(ctl.k, ctl.v)])]
        ELSE
          LET H2 == IF x.children = Nil
                    THEN Append(cp.heap, emptyChildren) ELSE cp.heap
              c  == IF x.children = Nil THEN Len(cp.heap) + 1 ELSE x.children
              existingHash == hash(x.leaf[1])
              existingIdx  == index(existingHash, ctl.depth)
          IN  [heap  |-> H2,
               stack |-> Append(stack, Frame("pushDown", c, existingIdx,
                                             ctl.k, ctl.v, ctl.h, ctl.depth)),
               ctl   |-> CallInsert(H2[c][existingIdx], x.leaf[1], x.leaf[2],
                                    existingHash, ctl.depth + 1)]

\* a callee returned to the activation on top of the stack
resume(H, stack, ctl) ==
  LET f    == stack[Len(stack)]
      rest == SubSeq(stack, 1, Len(stack) - 1)
      H2   == [H EXCEPT ![f.c][f.slot] = ctl.node]
  IN  IF f.pc = "pushDown"
      THEN LET idx == index(f.h, f.depth)
           IN  [heap  |-> H2,
                stack |-> Append(rest, [f EXCEPT !.pc = "insert",
                                                 !.slot = idx]),
                ctl   |-> CallInsert(H2[f.c][idx], f.k, f.v, f.h,
                                     f.depth + 1)]
      ELSE [heap |-> H2, stack |-> rest,
            ctl |-> Return([leaf |-> NoLeaf, children |-> f.c])]

InSet == res # NoRes /\ res.op = "SetInProgress"

\* maps[i].Set(k, v) is called: the lookup is done, insert is about to run
SetEnter(i, k, v) ==
  /\ res = NoRes
  /\ Len(maps) < MaxDiveMaps
  /\ res' = [op |-> "SetInProgress", m |-> i, k |-> k, v |-> v,
             exists |-> get(heap, maps[i].root, k, hash(k), 0)[2],
             at |-> heap, stack |-> <<>>,
             ctl |-> CallInsert(maps[i].root, k, v, hash(k), 0)]
  /\ UNCHANGED <<legacy, threads, seed, heap, maps, prov, trav, b, bcalls,
                 blog>>

\* one activation of insert runs up to its recursive call or its return
InsertEnter ==
  /\ InSet
  /\ res.ctl.mode = "call"
  /\ res.ctl.depth < MaxDive
  /\ LET r == enter(heap, res.stack, res.ctl)
     IN  /\ heap' = r.heap
         /\ res' = [res EXCEPT !.stack = r.stack, !.ctl = r.ctl]
  /\ UNCHANGED <<legacy, threads, seed, maps, prov, trav, b, bcalls, blog>>

\* a recursive call returns into the activation that made it
InsertResume ==
  /\ InSet
  /\ res.ctl.mode = "ret"
  /\ res.stack # <<>>
  /\ LET r == resume(heap, res.stack, res.ctl)
     IN  /\ heap' = r.heap
         /\ res' = [res EXCEPT !.stack = r.stack, !.ctl = r.ctl]
  /\ UNCHANGED <<legacy, threads, seed, maps, prov, trav, b, bcalls, blog>>

\* the outermost insert returned: Set builds the new Map
SetReturn ==
  /\ InSet
  /\ res.ctl.mode = "ret"
  /\ res.stack = <<>>
  /\ LET m == maps[res.m]
         n == [root |-> res.ctl.node, len |-> newLen(m.len, res.exists)]
     IN  /\ maps' = Append(maps, n)
         /\ prov' = Append(prov, Call("Set", res.m, res.k, res.v,
                                      Obs(res.at, m), Obs(heap, n),
                                      Len(heap) - Len(res.at)))
  /\ trav' = NoTrav
  /\ res' = NoRes
  /\ UNCHANGED <<legacy, threads, seed, heap, b, bcalls, blog>>

InitCollide ==
  /\ seed \in Seeds \cup CollidingSeeds
  /\ heap = <<>>
  /\ maps = <<NewMap>>
  /\ prov = <<Call("NewMap", 0, "", zero, <<>>, Obs(<<>>, NewMap), 0)>>
  /\ trav = NoTrav
  /\ b = NewBuilder
  /\ bcalls = 0
  /\ blog = <<>>
  /\ res = NoRes
  /\ threads = <<>>
  /\ legacy = NewLegacy

NextCollide ==
  \/ \E k \in K, v \in V : SetEnter(Len(maps), k, v)
  \/ InsertEnter
  \/ InsertResume
  \/ SetReturn

SpecCollide == InitCollide /\ [][NextCollide]_vars

\* run one activation at a time, insert returns what insert returns
InsertAgrees ==
  (InSet /\ res.ctl.mode = "ret" /\ res.stack = <<>> /\ seed \in Seeds) =>
    LET r == insert(res.at, maps[res.m].root, res.k, res.v, hash(res.k), 0)
    IN  r.heap = heap /\ r.node = res.ctl.node

(***************************************************************************)
(* C28.  Set terminates for every key, keys whose 64-bit hashes are equal  *)
(* included: the push-down stops at the depth limit of 32 at the latest,   *)
(* so no call of insert runs deeper than maxDepth, and when Set has        *)
(* returned the key set and every key the receiver had can be got.         *)
(***************************************************************************)
C28_InsertStopsByMaxDepth ==
  /\ InSet /\ res.ctl.mode = "call" => res.ctl.depth <= maxDepth
  /\ \A j \in Calls("Set") :
       /\ prov[j].post.get[prov[j].k] = <<prov[j].v, TRUE>>
       /\ \A k \in K \ {prov[j].k} :
            prov[j].pre.get[k][2] => prov[j].post.get[k] = prov[j].pre.get[k]

(***************************************************************************)
(* index as a function of its own.  The hashes are all the values of four  *)
(* limbs drawn from four bit patterns (1B1B, 6C6C, B1B1 and C6C6 in hex)   *)
(* among which every pair of bits takes every value; the program picks a   *)
(* hash and calls index at any depth.                                      *)
(***************************************************************************)
Limbs == {6939, 27756, 45489, 50886}

Hashes == {<<l1, l2, l3, l4>> : l1 \in Limbs, l2 \in Limbs, l3 \in Limbs,
                                l4 \in Limbs}

InitIndex ==
  /\ seed \in Seeds
  /\ heap = <<>>
  /\ maps = <<NewMap>>
  /\ prov = <<Call("NewMap", 0, "", zero, <<>>, Obs(<<>>, NewMap), 0)>>
  /\ trav = NoTrav
  /\ b = NewBuilder
  /\ bcalls = 0
  /\ blog = <<>>
  /\ \E h \in Hashes : res = [op |-> "hash", h |-> h]
  /\ threads = <<>>
  /\ legacy = NewLegacy

\* i := index(h, depth)
CallIndex(depth) ==
  /\ res.op = "hash"
  /\ res' = [op |-> "index", h |-> res.h, depth |-> depth,
             out |-> index(res.h, depth)]
  /\ UNCHANGED <<legacy, threads, seed, heap, maps, prov, trav, b, bcalls,
                 blog>>

NextIndex == \E depth \in 0 .. MaxIndexDepth : CallIndex(depth)

SpecIndex == InitIndex /\ [][NextIndex]_vars

\* bit i of h, bit 1 being the most significant of the 64
BitOf(h, i) == (h[((i - 1) \div 16) + 1] \div Pow2(15 - ((i - 1) % 16))) % 2

\* the d-th pair of bits of h counted from the most-significant end
PairOf(h, d) == 2 * BitOf(h, 2 * d + 1) + BitOf(h, 2 * d + 2)

(***************************************************************************)
(* C29.  For a depth d in 0..31 index(h, d) is (h >> (64 - 2*(d+1))) & 3,  *)
(* the d-th pair of bits of h from the most-significant end, so another    *)
(* hash has the same index at d exactly when it has the same pair there;   *)
(* at every depth, 32 and more included, the result is in 0..3.            *)
(***************************************************************************)
C29_IndexIsBitPair ==
  res.op = "index" =>
    /\ res.out \in 0 .. width - 1
    /\ res.depth < maxDepth =>
         /\ res.out = PairOf(res.h, res.depth)
         /\ \A g \in Hashes :
              (index(g, res.depth) = res.out)
                <=> (PairOf(g, res.depth) = PairOf(res.h, res.depth))

\* index was called at the last depth that has bits, on a hash whose
\* first pair is 00 and whose last pair is 11
C29_Witness ==
  /\ res.op = "index"
  /\ res.depth = maxDepth - 1
  /\ res.h[1] = 6939
  /\ res.h[4] = 6939
  /\ res.out = 3

(***************************************************************************)
(* Histories of Set alone: every Map is the newest one with one more Set.  *)
(***************************************************************************)
NextSetOnly ==
  \E k \in K, v \in V : Len(maps) < MaxSetMaps /\ MapSet(Len(maps), k, v)

SpecSetOnly == Init /\ [][NextSetOnly]_vars

\* the calls that made maps[j], the oldest first
RECURSIVE HistoryOf(_)
HistoryOf(j) ==
  IF prov[j].op = "NewMap" THEN <<>>
  ELSE Append(HistoryOf(prov[j].src), prov[j])

\* what a map of the standard library holds after the same assignments
RECURSIVE Reference(_)
Reference(calls) ==
  IF calls = <<>> THEN [k \in {} |-> zero]
  ELSE LET c    == calls[Len(calls)]
           prev == Reference(SubSeq(calls, 1, Len(calls) - 1))
       IN  [k \in DOMAIN prev \cup {c.k} |-> IF k = c.k THEN c.v ELSE prev[k]]

(***************************************************************************)
(* C30.  After any sequence of Set calls from the empty Map, Get of a key  *)
(* returns the value of the most recent Set of that key and true, Get of   *)
(* a key never set returns not found, and Len is the number of distinct    *)
(* keys set.                                                               *)
(***************************************************************************)
C30_SetOnlyAsReference ==
  \A j \in 1 .. Len(maps) :
    LET ref == Reference(HistoryOf(j))
    IN  /\ \A k \in K :
             Get(heap, maps[j], k) = IF k \in DOMAIN ref THEN <<ref[k], TRUE>>
                                     ELSE <<zero, FALSE>>
        /\ MapLen(maps[j]) = Cardinality(DOMAIN ref)

\* a history that set one key twice with different values, pushed a leaf
\* down on the way and never set another key
C30_Witness ==
  \E j \in 1 .. Len(maps) :
    LET calls == HistoryOf(j)
    IN  /\ Len(calls) = MaxSetMaps - 1
        /\ \E x, y \in 1 .. Len(calls) :
             x < y /\ calls[x].k = calls[y].k /\ calls[x].v # calls[y].v
        /\ \E x \in 1 .. Len(calls) : calls[x].allocs >= 1
        /\ \E k \in K : k \notin DOMAIN Reference(calls)
=============================================================================
